---- MODULE Spec2Model ----
(***************************************************************************)
(* A model of the acid-line step sequencer engine (useSequencerEngine.ts), *)
(* the pattern store it reads (sequencerStore.ts) and the MIDI sink it     *)
(* drives (useMidi.ts).                                                    *)
(*                                                                         *)
(* Time is measured in microseconds.  Every browser timer is a record with *)
(* the time that remains until it is due; Advance lets time pass up to the *)
(* next due timer, and user actions may happen at any such instant.        *)
(***************************************************************************)
EXTENDS Integers, Sequences, FiniteSets, TLC

VARIABLES
    steps,              \* store.steps: the pattern, indexed 0..StepCount-1
    currentStep,        \* store.currentStep
    isPlaying,          \* store.isPlaying
    tempo,              \* store.tempo
    baseOctave,         \* store.baseOctave
    modulations,        \* store.modulations
    intervalRef,        \* engine: handle of the step interval, or Null
    noteOffTimeoutRef,  \* engine: handle of the deferred note-off, or Null
    lastNoteRef,        \* engine: the held note number, or Null
    modulationPhaseRef, \* engine: phase accumulator of each target
    sinceModulation,    \* performance.now() - lastModulationTimeRef
    isConnected,        \* useMidi: a device is selected
    timers,             \* the browser's pending timers
    sounding,           \* the note numbers sounding at the receiving device
    glide,              \* last value sent to controller 102
    log,                \* what the last handler did, in order
    bridge,             \* the last evaluation triggered a note that it left
                        \* to sound into a tied next step, and neither the
                        \* pattern nor the transport was touched since
    plays,              \* number of times playback was started so far
    lastEvaluation,     \* the step evaluated last since play(): its index,
                        \* what it did and the tempo it read
    elapsed,            \* time since that evaluation, or since play()
    wallPhase           \* for each channel enabled with an unchanged period
                        \* since play(): its phase at play() plus the time
                        \* since play() over its period; Null otherwise

vars == <<steps, currentStep, isPlaying, tempo, baseOctave, modulations,
          intervalRef, noteOffTimeoutRef, lastNoteRef, modulationPhaseRef,
          sinceModulation, isConnected, timers, sounding, glide, log, bridge,
          plays, lastEvaluation, elapsed, wallPhase>>

----------------------------------------------------------------------------
(* Bounds of the model *)

\* length of the pattern (the store builds 16 steps)
StepCount == 3
\* number of times the user starts playback
MaxPlays == 1
\* number of times the user starts playback when nothing else is touched
MaxReplays == 2

(* Program constants *)

\* useRef<number | null>(null): timer handles and note numbers are >= 0
Null == -1
\* setTimeout(..., 10) in handlePlay, in microseconds
StartDelay == 10000
DEFAULT_CHANNEL == 1
\* controller 102 realises slide on the TB-03
SlideCC == 102
\* controller 123 is All Notes Off
AllNotesOffCC == 123
InitialTempo == 120
InitialBaseOctave == 3

NOTE_NAMES == <<"C", "C#", "D", "D#", "E", "F", "F#", "G", "G#", "A", "A#", "B">>
Targets == {"envMod", "accentLevel", "resonance", "cutoff", "decay"}
TB03_CCS == [t \in Targets |->
    CASE t = "envMod" -> 12
      [] t = "accentLevel" -> 16
      [] t = "resonance" -> 71
      [] t = "cutoff" -> 74
      [] t = "decay" -> 75]

(* Inputs the environment draws from *)

StepIndices == 0 .. (StepCount - 1)
\* the steps the user edits
EditSteps == {1}
\* arguments of setTempo
TempoInputs == {400}
\* arguments of setNote
NoteInputs == {"C", "D"}
\* outcomes of Math.random(), in thousandths
RandomDraws == {0, 999}
\* the modulation channels the user switches on and off
ModulationInputs == {"envMod", "cutoff"}
\* the modulation channel whose controls the user moves, and to what
ParamTargets == {"cutoff"}
ParamInputs == {<<"oscillator", "triangle">>, <<"high", 1>>}
OscillatorTypes == {"sine", "saw", "square", "triangle"}
\* arguments of the setters of the store: below, at, inside and above the
\* ranges of the tempo, the base octave and the octave of a step
StoreInputs == {-40, -2, -1, 0, 1, 2, 6, 7, 29, 30, 120, 300, 301, 5000}

Min(a, b) == IF a < b THEN a ELSE b
Max(a, b) == IF a > b THEN a ELSE b

----------------------------------------------------------------------------
(* The MIDI sink: useMidi.ts *)

Clamp(lo, hi, x) == Max(lo, Min(hi, x))

\* Math.round(num / den) for den > 0: the nearest integer, halves rounded up
Round(num, den) == (2 * num + den) \div (2 * den)

\* a | b on non-negative integers
RECURSIVE BitOr(_, _)
BitOr(a, b) ==
    IF a = 0 THEN b
    ELSE IF b = 0 THEN a
    ELSE (IF a % 2 = 1 \/ b % 2 = 1 THEN 1 ELSE 0)
            + 2 * BitOr(a \div 2, b \div 2)

\* a status byte that combines the base with the channel number itself
Status_rawChannel(base, channel) == BitOr(base, channel)

\* base | (channel - 1)
Status(base, channel) == BitOr(base, channel - 1)

noteOn(note, velocity, channel) ==
    <<Status(144, channel), note, Clamp(0, 127, velocity)>>

noteOff(note, channel) == <<Status(128, channel), note, 0>>

\* a pitchBend that truncates instead of rounding
pitchBend_truncated(num, den, channel) ==
    LET bendValue == Clamp(0, 16383, ((num + den) * 16383) \div (2 * den))
        lsb == bendValue % 128
        msb == (bendValue \div 128) % 128
    IN  <<Status(224, channel), lsb, msb>>

\* pitchBend(num / den)
pitchBend(num, den, channel) ==
    LET bendValue == Clamp(0, 16383, Round((num + den) * 16383, 2 * den))
        lsb == bendValue % 128
        msb == (bendValue \div 128) % 128
    IN  <<Status(224, channel), lsb, msb>>

\* a controlChange that sends its arguments as they are
controlChange_unclamped(cc, value, channel) ==
    <<Status(176, channel), cc, value>>

controlChange(cc, value, channel) ==
    <<Status(176, channel), Clamp(0, 127, cc), Clamp(0, 127, value)>>

allNotesOff(channel) ==
    <<controlChange(AllNotesOffCC, 0, channel), pitchBend(0, 1, channel)>>

IsNoteOn(m) == m[1] \in 144 .. 159 /\ m[3] > 0
IsNoteOff(m) == m[1] \in 128 .. 143
IsControl(m, cc) == m[1] \in 176 .. 191 /\ m[2] = cc
IsPitchBend(m) == m[1] \in 224 .. 239

\* the notes sounding at the device after it has received message m
Receive(snd, m) ==
    IF IsNoteOn(m) THEN snd \cup {m[2]}
    ELSE IF IsNoteOff(m) THEN snd \ {m[2]}
    ELSE IF IsControl(m, AllNotesOffCC) THEN {}
    ELSE snd

\* an entry of the handler log
Ev(op, a, b, c) == [op |-> op, a |-> a, b |-> b, c |-> c]

\* send(data): every call is logged; the data reaches the device only when
\* the closure that sends it was created with a selected output (conn)
send(s, m, conn) ==
    [s EXCEPT !.log = Append(@, Ev("send", m[1], m[2], m[3])),
              !.sounding = IF conn THEN Receive(@, m) ELSE @,
              !.glide = IF conn /\ IsControl(m, SlideCC) THEN m[3] ELSE @]

----------------------------------------------------------------------------
(* The pattern store: sequencerStore.ts *)

DefaultStep == [note |-> "C", octave |-> 0, accent |-> FALSE,
                slide |-> FALSE, tie |-> FALSE, active |-> TRUE]

IndexOf(name) == (CHOOSE i \in 1 .. Len(NOTE_NAMES) : NOTE_NAMES[i] = name) - 1

\* a stepToMidiNote that leaves out the octave of the step
stepToMidiNote_baseOnly(step, base) ==
    LET noteIndex == IndexOf(step.note)
    IN  (base + 1) * 12 + noteIndex

stepToMidiNote(step, base) ==
    LET noteIndex == IndexOf(step.note)
        octave == base + step.octave
    IN  (octave + 1) * 12 + noteIndex

\* a getVelocity whose lower range is one wider
getVelocity_wide(accent, r) ==
    IF accent THEN 100 + ((r * 28) \div 1000) ELSE 1 + ((r * 99) \div 1000)

\* getVelocity(accent), with Math.random() = r / 1000
getVelocity(accent, r) ==
    IF accent THEN 100 + ((r * 28) \div 1000) ELSE 1 + ((r * 98) \div 1000)

\* a stop() that forgets to reset the step index
stop_keepsStep(s) == [s EXCEPT !.isPlaying = FALSE]

advanceStep(s) == [s EXCEPT !.currentStep = (@ + 1) % StepCount]
setCurrentStep(s, n) == [s EXCEPT !.currentStep = n]
play(s) == [s EXCEPT !.isPlaying = TRUE]
stop(s) == [s EXCEPT !.isPlaying = FALSE, !.currentStep = 0]
\* a setTempo that stores its argument as it is
setTempo_unclamped(s, t) == [s EXCEPT !.tempo = t]

setTempo(s, t) == [s EXCEPT !.tempo = Max(30, Min(300, t))]
setBaseOctave(s, octave) == [s EXCEPT !.baseOctave = Max(1, Min(6, octave))]
setOctave(s, i, octave) ==
    [s EXCEPT !.steps[i].octave = Max(-1, Min(1, octave))]
setNote(s, i, n) == [s EXCEPT !.steps[i].note = n]
toggleAccent(s, i) == [s EXCEPT !.steps[i].accent = ~@]
toggleSlide(s, i) == [s EXCEPT !.steps[i].slide = ~@]
toggleTie(s, i) == [s EXCEPT !.steps[i].tie = ~@]
toggleActive(s, i) == [s EXCEPT !.steps[i].active = ~@]
toggleModulation(s, target) == [s EXCEPT !.modulations[target].enabled = ~@]
setModulationParam(s, target, param, value) ==
    [s EXCEPT !.modulations[target][param] = value]
updateModulationValue(s, target, value) ==
    [s EXCEPT !.modulations[target].currentValue = value]

----------------------------------------------------------------------------
(* Browser timers: setTimeout, setInterval, clearTimeout, clearInterval *)

\* kind is "start" (the 10 ms timeout of handlePlay), "interval" (the step
\* interval) or "noteOff" (the deferred note-off).  rem is the time until
\* the timer is due, period the interval's period, note the note number a
\* deferred note-off carries, conn whether the closure was created with a
\* selected output, stale whether a note-on was sent after a deferred
\* note-off was scheduled.
Timer(id, kind, rem, period, note, conn) ==
    [id |-> id, kind |-> kind, rem |-> rem, period |-> period,
     note |-> note, conn |-> conn, stale |-> FALSE]

\* the handle the browser returns next: a positive number not in use
NewId(s) ==
    CHOOSE n \in 1 .. (Cardinality(s.timers) + 3) :
        /\ \A t \in s.timers : t.id # n
        /\ n # s.intervalRef
        /\ n # s.noteOffTimeoutRef
        /\ \A m \in 1 .. (n - 1) :
              \/ \E t \in s.timers : t.id = m
              \/ m = s.intervalRef
              \/ m = s.noteOffTimeoutRef

\* clearTimeout(id) and clearInterval(id) share one pool of handles
clearTimer(s, op, id) ==
    [s EXCEPT !.timers = {t \in @ : t.id # id},
              !.log = Append(@, Ev(op, id, 0, 0))]

setTimer(s, op, t) ==
    [s EXCEPT !.timers = @ \cup {t},
              !.log = Append(@, Ev(op, t.id, t.rem, t.note))]

----------------------------------------------------------------------------
(* The engine: useSequencerEngine.ts *)

\* (60000 / tempo) / 4 milliseconds, in microseconds
getStepDuration(t) == (60000000 \div t) \div 4

\* stepDuration * 0.85
gateTime(stepDuration) == (stepDuration * 85) \div 100

\* Phases are kept in 1/1600 of a cycle, which is exact for the elapsed
\* times and the periods of the model, and modulo one cycle: every waveform
\* has period 1.
Cycle == 16 * 100

\* Math.sin(phase * Math.PI * 2) in thousandths, frac in 1/1600 of a cycle,
\* by Bhaskara's formula sin(pi u) = 4 u (1 - u) / (5/4 - u (1 - u)), which
\* is within 0.002 of the sine
Sine(frac) ==
    LET x == frac % 800
        p == x * (800 - x)
        half == (4000 * p) \div (800000 - p)
    IN  IF frac % Cycle < 800 THEN half ELSE -half

\* Math.abs
Abs(x) == IF x < 0 THEN -x ELSE x

\* Math.sin(phase * Math.PI * 2) is exact at phase 0 and at the quarter
\* points, but at the other multiples of half a cycle it is a few 1e-16 away
\* from zero, because Math.PI lies below pi: above zero at phases 1/2, 3/2,
\* .. 11/2 and below zero at phases 1, 2, .. 6.  SineError is the sign of
\* that error; beyond six cycles the sign is irregular and is taken as zero.
SineError(phase) ==
    IF phase % 800 # 0 \/ phase <= 0 \/ phase > 6 * Cycle THEN 0
    ELSE IF phase % Cycle = 800 THEN 1
    ELSE -1

\* the largest power of two that is at most x, for x >= 1
RECURSIVE PowerOfTwo(_)
PowerOfTwo(x) == IF x < 2 THEN 1 ELSE 2 * PowerOfTwo(x \div 2)

\* low + normalizedValue * (high - low) falls just below the midpoint
\* (low + high) / 2 when the error of the sine pulls it down and survives the
\* roundings of the product and of the sum; it does so for levels in 0 .. 127
\* whenever |high - low| is at least twice the power of two at or below the
\* midpoint.  Math.round then loses the half of an odd low + high.
HalfLost(phase, low, high) ==
    LET mid == (low + high) \div 2
    IN  /\ low \in 0 .. 127 /\ high \in 0 .. 127
        /\ (low + high) % 2 = 1
        /\ SineError(phase) * (high - low) < 0
        /\ (mid = 0 \/ Abs(high - low) >= 2 * PowerOfTwo(mid))

\* deltaTime / mod.speed in 1/1600 of a cycle; both are in microseconds and
\* multiples of 250
PhaseAdvance(deltaTime, speed) ==
    ((deltaTime \div 250) * Cycle) \div (speed \div 250)

\* an oscillator whose triangle is the ramp (phase % 1) * 2 - 1 of the saw
getOscillatorValue_ramp(phase, low, high, oscillator) ==
    LET frac == phase % Cycle
    IN  CASE oscillator = "square" -> IF frac < 800 THEN high ELSE low
          [] oscillator = "saw" \/ oscillator = "triangle" ->
               Round(low * Cycle + frac * (high - low), Cycle)
          [] OTHER ->
               Round(low * 2000 + (Sine(frac) + 1000) * (high - low), 2000)

\* an oscillator that maps the raw waveform [-1, 1] onto [2 low - high, high]
getOscillatorValue_unnormalized(phase, low, high, oscillator) ==
    IF phase % Cycle < 800 THEN high ELSE 2 * low - high

\* lines 42-67; phase is in 1/1600 of a cycle.  The value returned is
\* Math.round(low + ((waveValue + 1) / 2) * (high - low)).
getOscillatorValue(phase, low, high, oscillator) ==
    LET frac == phase % Cycle
    IN  CASE oscillator = "saw" ->
               \* waveValue = frac * 2 - 1
               Round(low * Cycle + frac * (high - low), Cycle)
          [] oscillator = "square" ->
               \* waveValue = 1 or -1
               IF frac < 800 THEN high ELSE low
          [] oscillator = "triangle" ->
               \* waveValue = |frac * 4 - 2| - 1
               Round(low * 2 * Cycle + Abs(4 * frac - 2 * Cycle) * (high - low),
                     2 * Cycle)
          [] OTHER ->
               \* waveValue = Math.sin(phase * Math.PI * 2), of the phase itself
               IF HalfLost(phase, low, high) THEN (low + high) \div 2
               ELSE Round(low * 2000 + (Sine(frac) + 1000) * (high - low), 2000)

\* a loop body that does not test the enabled flag
modulate_ignoresEnabled(s, target, deltaTime, conn) ==
    LET mod == s.modulations[target]
        phase == (s.modulationPhaseRef[target]
                    + PhaseAdvance(deltaTime, mod.speed)) % Cycle
        value == getOscillatorValue(phase, mod.low, mod.high, mod.oscillator)
    IN  send([s EXCEPT !.modulationPhaseRef[target] = phase],
             controlChange(TB03_CCS[target], value, DEFAULT_CHANNEL), conn)

\* lines 80-94: the loop body of sendModulations for one target; deltaTime
\* and mod.speed are in microseconds
modulate(s, target, deltaTime, conn) ==
    LET mod == s.modulations[target]
        phase == (s.modulationPhaseRef[target]
                    + PhaseAdvance(deltaTime, mod.speed)) % Cycle
        value == getOscillatorValue(phase, mod.low, mod.high, mod.oscillator)
    IN  IF ~mod.enabled THEN s
        ELSE send([s EXCEPT !.modulationPhaseRef[target] = phase],
                  controlChange(TB03_CCS[target], value, DEFAULT_CHANNEL), conn)

\* a sendModulations that counts one step duration per call instead of the
\* time that has passed
sendModulations_nominal(s, conn) ==
    IF ~conn THEN s
    ELSE LET deltaTime == getStepDuration(s.tempo)
             s0 == [s EXCEPT !.sinceModulation = 0]
             s1 == modulate(s0, "envMod", deltaTime, conn)
             s2 == modulate(s1, "accentLevel", deltaTime, conn)
             s3 == modulate(s2, "resonance", deltaTime, conn)
             s4 == modulate(s3, "cutoff", deltaTime, conn)
         IN  modulate(s4, "decay", deltaTime, conn)

sendModulations(s, conn) ==
    IF ~conn THEN s
    ELSE LET deltaTime == s.sinceModulation
             s0 == [s EXCEPT !.sinceModulation = 0]
             s1 == modulate(s0, "envMod", deltaTime, conn)
             s2 == modulate(s1, "accentLevel", deltaTime, conn)
             s3 == modulate(s2, "resonance", deltaTime, conn)
             s4 == modulate(s3, "cutoff", deltaTime, conn)
         IN  modulate(s4, "decay", deltaTime, conn)

\* a playStep that does not clear the pending note-off
clearPendingNoteOff_skipped(s) == s

\* lines 111-116: clear any pending note-off
clearPendingNoteOff(s) ==
    IF s.noteOffTimeoutRef # Null
    THEN [clearTimer(s, "clearTimeout", s.noteOffTimeoutRef)
            EXCEPT !.noteOffTimeoutRef = Null]
    ELSE s

\* a trigger that sends the glide controller only for a step with slide
triggerNote_glideOnly(s, step, conn, r) ==
    LET midiNote == stepToMidiNote(step, s.baseOctave)
        velocity == getVelocity(step.accent, r)
        s1 == IF step.slide
              THEN send(s, controlChange(SlideCC, 127, DEFAULT_CHANNEL), conn)
              ELSE s
        s2 == send(s1, noteOn(midiNote, velocity, DEFAULT_CHANNEL), conn)
    IN  [s2 EXCEPT !.lastNoteRef = midiNote,
                   !.timers = {[t EXCEPT !.stale = (t.kind = "noteOff")]
                                  : t \in @}]

\* a trigger that gives up when no device is selected
triggerNote_whenConnected(s, step, conn, r) ==
    LET midiNote == stepToMidiNote(step, s.baseOctave)
        velocity == getVelocity(step.accent, r)
        s1 == send(s, controlChange(SlideCC, IF step.slide THEN 127 ELSE 0,
                                    DEFAULT_CHANNEL), conn)
        s2 == send(s1, noteOn(midiNote, velocity, DEFAULT_CHANNEL), conn)
    IN  IF ~conn THEN s
        ELSE [s2 EXCEPT !.lastNoteRef = midiNote,
                        !.timers = {[t EXCEPT !.stale = (t.kind = "noteOff")]
                                       : t \in @}]

\* a playStep that does not skip rests
isRest_never(step) == FALSE

\* lines 118-122: a rest is skipped
isRest(step) == ~step.active

\* lines 124-128: a tied step does not retrigger while a note is held
isTiedHold(step, lastNote) == step.tie /\ lastNote # Null

\* lines 133-143: glide controller, note-on, remember the note
triggerNote(s, step, conn, r) ==
    LET midiNote == stepToMidiNote(step, s.baseOctave)
        velocity == getVelocity(step.accent, r)
        s1 == send(s, controlChange(SlideCC, IF step.slide THEN 127 ELSE 0,
                                    DEFAULT_CHANNEL), conn)
        s2 == send(s1, noteOn(midiNote, velocity, DEFAULT_CHANNEL), conn)
    IN  [s2 EXCEPT !.lastNoteRef = midiNote,
                   !.timers = {[t EXCEPT !.stale = (t.kind = "noteOff")]
                                  : t \in @}]

\* a playStep that schedules the note-off whatever the next step is
scheduleNoteOff_always(s, nextStep, midiNote, delay, conn) ==
    LET id == NewId(s)
    IN  [setTimer(s, "setTimeout",
                  Timer(id, "noteOff", delay, 0, midiNote, conn))
           EXCEPT !.noteOffTimeoutRef = id]

\* lines 145-155: schedule the note-off unless the next step is tied
scheduleNoteOff(s, nextStep, midiNote, delay, conn) ==
    IF ~nextStep.tie
    THEN LET id == NewId(s)
         IN  [setTimer(s, "setTimeout",
                       Timer(id, "noteOff", delay, 0, midiNote, conn))
                EXCEPT !.noteOffTimeoutRef = id]
    ELSE s

\* no step was evaluated since play()
NoEvaluation == [step |-> Null, kind |-> "none", tempo |-> Null]

\* what the evaluation of a step did: kind is "rest", "tied" or "trigger"
Evaluation(stepIndex, step, lastNote, t) ==
    [step |-> stepIndex,
     kind |-> IF isRest(step) THEN "rest"
              ELSE IF isTiedHold(step, lastNote) THEN "tied"
              ELSE "trigger",
     tempo |-> t]

\* a playStep that evaluates the pattern as it was when the page was loaded
playStep_initialPattern(s, conn, r) ==
    LET stepIndex == s.currentStep
        step == DefaultStep
        stepDuration == getStepDuration(s.tempo)
        s0 == [s EXCEPT !.log = Append(@, Ev("playStep", stepIndex, 0, 0)),
                        !.bridge = FALSE,
                        !.lastEvaluation =
                            Evaluation(stepIndex, step, s.lastNoteRef, s.tempo),
                        !.elapsed = 0]
        s1 == clearPendingNoteOff(s0)
    IN  IF isRest(step) THEN s1
        ELSE IF isTiedHold(step, s1.lastNoteRef) THEN s1
        ELSE LET s2 == triggerNote(s1, step, conn, r)
                 s3 == scheduleNoteOff(s2, DefaultStep, s2.lastNoteRef,
                                       gateTime(stepDuration), conn)
             IN  [s3 EXCEPT !.bridge = FALSE]

\* lines 98-156; the log entry is the console.log of line 109
playStep(s, conn, r) ==
    LET stepIndex == s.currentStep
        step == s.steps[stepIndex]
        stepDuration == getStepDuration(s.tempo)
        s0 == [s EXCEPT !.log = Append(@, Ev("playStep", stepIndex, 0, 0)),
                        !.bridge = FALSE,
                        !.lastEvaluation =
                            Evaluation(stepIndex, step, s.lastNoteRef, s.tempo),
                        !.elapsed = 0]
        s1 == clearPendingNoteOff(s0)
    IN  IF isRest(step) THEN s1
        ELSE IF isTiedHold(step, s1.lastNoteRef) THEN s1
        ELSE LET s2 == triggerNote(s1, step, conn, r)
                 nextStepIndex == (stepIndex + 1) % StepCount
                 s3 == scheduleNoteOff(s2, s.steps[nextStepIndex],
                                       s2.lastNoteRef, gateTime(stepDuration),
                                       conn)
             IN  [s3 EXCEPT !.bridge = s.steps[nextStepIndex].tie]

\* lines 211-221: the effect that restarts the interval; it runs after every
\* render of App, with the closures (and so the connection) of that render
tempoEffect(s) ==
    IF ~s.isPlaying \/ s.intervalRef = Null THEN s
    ELSE LET s1 == clearTimer(s, "clearInterval", s.intervalRef)
             stepDuration == getStepDuration(s.tempo)
             id == NewId([s1 EXCEPT !.intervalRef = Null])
         IN  [setTimer(s1, "setInterval",
                       Timer(id, "interval", stepDuration, stepDuration,
                             Null, s.isConnected))
                EXCEPT !.intervalRef = id]

\* App renders again when a value it subscribes to has changed: tempo and
\* isPlaying (engine hook), modulations (App), the state of useMidi
render(old, new) ==
    IF \/ old.tempo # new.tempo
       \/ old.isPlaying # new.isPlaying
       \/ old.modulations # new.modulations
       \/ old.isConnected # new.isConnected
    THEN tempoEffect(new)
    ELSE new

\* the phases from which the channels that are enabled at play() start
PhaseAtPlay(s) ==
    [t \in Targets |-> IF s.modulations[t].enabled
                       THEN s.modulationPhaseRef[t] ELSE Null]

\* a handlePlay that does not test isPlaying
handlePlay_unguarded(s, conn) ==
    LET s1 == [s EXCEPT !.sinceModulation = 0, !.bridge = FALSE,
                        !.lastEvaluation = NoEvaluation, !.elapsed = 0,
                        !.wallPhase = PhaseAtPlay(s),
                        !.log = Append(@, Ev("handlePlay", 0, 0, 0))]
        s2 == play(setCurrentStep(s1, 0))
    IN  setTimer(s2, "setTimeout",
                 Timer(NewId(s2), "start", StartDelay, 0, Null, conn))

\* lines 159-184, up to the setTimeout call
handlePlay(s, conn) ==
    IF s.isPlaying THEN s
    ELSE LET s1 == [s EXCEPT !.sinceModulation = 0, !.bridge = FALSE,
                             !.lastEvaluation = NoEvaluation, !.elapsed = 0,
                        !.wallPhase = PhaseAtPlay(s),
                             !.log = Append(@, Ev("handlePlay", 0, 0, 0))]
             s2 == play(setCurrentStep(s1, 0))
         IN  setTimer(s2, "setTimeout",
                      Timer(NewId(s2), "start", StartDelay, 0, Null, conn))

\* lines 170-183: the callback of the start-up timeout
startCallback(s, conn, r) ==
    LET s1 == sendModulations(playStep(s, conn, r), conn)
        stepDuration == getStepDuration(s1.tempo)
        id == NewId(s1)
    IN  [setTimer(s1, "setInterval",
                  Timer(id, "interval", stepDuration, stepDuration, Null, conn))
           EXCEPT !.intervalRef = id]

\* lines 178-182 and 216-220: the callback of the step interval
intervalCallback(s, conn, r) ==
    sendModulations(playStep(advanceStep(s), conn, r), conn)

\* a note-off callback that leaves the handle set
noteOffCallback_keepsHandle(s, midiNote, conn) ==
    send(s, noteOff(midiNote, DEFAULT_CHANNEL), conn)

\* lines 150-154: the callback of the deferred note-off
noteOffCallback(s, midiNote, conn) ==
    [send(s, noteOff(midiNote, DEFAULT_CHANNEL), conn)
       EXCEPT !.noteOffTimeoutRef = Null]

\* lines 190-198: cancel the interval and the pending note-off
stopTimers(s) ==
    LET s1 == IF s.intervalRef # Null /\ s.intervalRef # 0
              THEN [clearTimer(s, "clearInterval", s.intervalRef)
                      EXCEPT !.intervalRef = Null]
              ELSE s
    IN  IF s1.noteOffTimeoutRef # Null
        THEN [clearTimer(s1, "clearTimeout", s1.noteOffTimeoutRef)
                EXCEPT !.noteOffTimeoutRef = Null]
        ELSE s1

\* lines 200-203: release the held note
releaseHeld(s, conn) ==
    IF s.lastNoteRef # Null
    THEN [send(s, noteOff(s.lastNoteRef, DEFAULT_CHANNEL), conn)
            EXCEPT !.lastNoteRef = Null]
    ELSE s

\* lines 205-206: pitch-bend reset and all-notes-off
panic(s, conn) ==
    LET s1 == send(s, pitchBend(0, 1, DEFAULT_CHANNEL), conn)
        s2 == send(s1, allNotesOff(DEFAULT_CHANNEL)[1], conn)
    IN  send(s2, allNotesOff(DEFAULT_CHANNEL)[2], conn)

\* lines 187-209
handleStop(s, conn) ==
    LET s1 == panic(releaseHeld(stopTimers(s), conn), conn)
    IN  [stop(s1) EXCEPT !.log = Append(@, Ev("stop", 0, 0, 0)),
                         !.bridge = FALSE]

----------------------------------------------------------------------------
(* The state machine *)

Cur ==
    [steps |-> steps, currentStep |-> currentStep, isPlaying |-> isPlaying,
     tempo |-> tempo, baseOctave |-> baseOctave, modulations |-> modulations,
     intervalRef |-> intervalRef, noteOffTimeoutRef |-> noteOffTimeoutRef,
     lastNoteRef |-> lastNoteRef, modulationPhaseRef |-> modulationPhaseRef,
     sinceModulation |-> sinceModulation, isConnected |-> isConnected,
     timers |-> timers, sounding |-> sounding, glide |-> glide,
     log |-> <<>>, bridge |-> bridge, plays |-> plays,
     lastEvaluation |-> lastEvaluation, elapsed |-> elapsed,
     wallPhase |-> wallPhase]

Becomes(s) ==
    /\ steps' = s.steps
    /\ currentStep' = s.currentStep
    /\ isPlaying' = s.isPlaying
    /\ tempo' = s.tempo
    /\ baseOctave' = s.baseOctave
    /\ modulations' = s.modulations
    /\ intervalRef' = s.intervalRef
    /\ noteOffTimeoutRef' = s.noteOffTimeoutRef
    /\ lastNoteRef' = s.lastNoteRef
    /\ modulationPhaseRef' = s.modulationPhaseRef
    /\ sinceModulation' = s.sinceModulation
    /\ isConnected' = s.isConnected
    /\ timers' = s.timers
    /\ sounding' = s.sounding
    /\ glide' = s.glide
    /\ log' = s.log
    /\ bridge' = s.bridge
    /\ plays' = s.plays
    /\ lastEvaluation' = s.lastEvaluation
    /\ elapsed' = s.elapsed
    /\ wallPhase' = s.wallPhase

\* createDefaultModulation, with Math.random() = 0 for the speed
DefaultModulation(low, high) ==
    [enabled |-> FALSE, low |-> low, high |-> high, speed |-> 2000000,
     oscillator |-> "sine", currentValue |-> 60]

\* the store, the refs of the engine and the browser after the first render
Constructed ==
    /\ steps = [i \in StepIndices |-> DefaultStep]
    /\ currentStep = 0
    /\ isPlaying = FALSE
    /\ tempo = InitialTempo
    /\ baseOctave = InitialBaseOctave
    /\ modulations = [t \in Targets |->
          CASE t = "envMod" -> DefaultModulation(20, 100)
            [] t = "accentLevel" -> DefaultModulation(64, 127)
            [] t = "resonance" -> DefaultModulation(30, 90)
            [] t = "cutoff" -> DefaultModulation(40, 120)
            [] t = "decay" -> DefaultModulation(20, 80)]
    /\ intervalRef = Null
    /\ noteOffTimeoutRef = Null
    /\ lastNoteRef = Null
    /\ modulationPhaseRef = [t \in Targets |-> 0]
    /\ sinceModulation = 0
    /\ timers = {}
    /\ sounding = {}
    /\ glide = 0
    /\ log = <<>>
    /\ bridge = FALSE
    /\ plays = 0
    /\ lastEvaluation = NoEvaluation
    /\ elapsed = 0
    /\ wallPhase = [t \in Targets |-> Null]

\* initMidi has found and selected the device before the user acts
Init == Constructed /\ isConnected = TRUE

\* the Play button
Play ==
    /\ plays < MaxPlays \/ isPlaying
    /\ LET s == handlePlay(Cur, isConnected)
       IN  Becomes(render(Cur, [s EXCEPT !.plays = IF isPlaying THEN @ ELSE @ + 1]))

\* the Stop button, shown whether or not the transport is playing
Stop ==
    /\ isPlaying \in BOOLEAN
    /\ Becomes(render(Cur, handleStop(Cur, isConnected)))

\* the start-up timeout is due
StartFires ==
    \E t \in timers, r \in RandomDraws :
        /\ t.kind = "start" /\ t.rem = 0
        /\ Becomes(startCallback([Cur EXCEPT !.timers = @ \ {t}], t.conn, r))

\* the step interval is due
Tick ==
    \E t \in timers, r \in RandomDraws :
        /\ t.kind = "interval" /\ t.rem = 0
        /\ Becomes(intervalCallback(
              [Cur EXCEPT !.timers = (@ \ {t}) \cup {[t EXCEPT !.rem = t.period]}],
              t.conn, r))

\* the deferred note-off is due
NoteOffFires ==
    \E t \in timers :
        /\ t.kind = "noteOff" /\ t.rem = 0
        /\ Becomes(noteOffCallback([Cur EXCEPT !.timers = @ \ {t}], t.note, t.conn))

\* time passes until the next timer is due
Advance ==
    /\ timers # {}
    /\ \A t \in timers : t.rem > 0
    /\ LET d == CHOOSE d \in {t.rem : t \in timers} : \A t \in timers : d <= t.rem
       IN  Becomes([Cur EXCEPT
              !.timers = {[t EXCEPT !.rem = @ - d] : t \in @},
              !.sinceModulation = (@ + d) % 2000000,
              !.elapsed = @ + d,
              !.wallPhase = [t \in Targets |->
                  IF @[t] = Null THEN Null
                  ELSE (@[t] + PhaseAdvance(d, modulations[t].speed)) % Cycle]])

\* the tempo field
SetTempo ==
    \E t \in TempoInputs :
        /\ t \in Nat
        /\ Becomes(render(Cur, setTempo(Cur, t)))

\* the grid; an edit ends the window the bridge variable records
Edited(s) == [s EXCEPT !.bridge = FALSE]

SetNote ==
    \E i \in EditSteps, n \in NoteInputs :
        /\ i \in StepIndices
        /\ Becomes(Edited(setNote(Cur, i, n)))

ToggleSlide ==
    \E i \in EditSteps :
        /\ i \in StepIndices
        /\ Becomes(Edited(toggleSlide(Cur, i)))

ToggleTie ==
    \E i \in EditSteps :
        /\ i \in StepIndices
        /\ Becomes(Edited(toggleTie(Cur, i)))

ToggleActive ==
    \E i \in EditSteps :
        /\ i \in StepIndices
        /\ Becomes(Edited(toggleActive(Cur, i)))

Next ==
    \/ Play
    \/ Stop
    \/ StartFires
    \/ Tick
    \/ NoteOffFires
    \/ Advance
    \/ SetTempo
    \/ SetNote
    \/ ToggleSlide
    \/ ToggleTie
    \/ ToggleActive

Spec == Init /\ [][Next]_vars

\* The transport alone: the user presses Play and Stop, several times, and
\* touches neither the pattern nor the tempo.
Replay ==
    /\ plays < MaxReplays \/ isPlaying
    /\ LET s == handlePlay(Cur, isConnected)
       IN  Becomes(render(Cur, [s EXCEPT !.plays = IF isPlaying THEN @ ELSE @ + 1]))

NextReplay ==
    \/ Replay
    \/ Stop
    \/ StartFires
    \/ Tick
    \/ NoteOffFires
    \/ Advance

SpecReplay == Init /\ [][NextReplay]_vars

\* a channel that was switched, or whose period was changed, is no longer
\* one that ran unchanged since play()
Switched(s, target) == [s EXCEPT !.wallPhase[target] = Null]

\* The modulation panel: the user starts playback and uses the controls of
\* the modulation channels, before playback or right after a step was
\* evaluated; the pattern and the tempo are left alone.
ToggleModulation ==
    \E target \in ModulationInputs :
        /\ elapsed = 0
        /\ Becomes(Switched(render(Cur, toggleModulation(Cur, target)), target))

\* the sliders and the wave select are disabled while the channel is off
SetModulationParam ==
    \E target \in ParamTargets, pv \in ParamInputs :
        /\ elapsed = 0
        /\ modulations[target].enabled
        /\ LET s == render(Cur, setModulationParam(Cur, target, pv[1], pv[2]))
           IN  Becomes(IF pv[1] = "speed" THEN Switched(s, target) ELSE s)

NextModulation ==
    \/ Play
    \/ StartFires
    \/ Tick
    \/ NoteOffFires
    \/ Advance
    \/ ToggleModulation
    \/ SetModulationParam

SpecModulation == Init /\ [][NextModulation]_vars

\* The modulation switches and the tempo field together: the user sets the
\* switches before playback and changes the tempo at any time.
ArmModulation ==
    \E target \in ModulationInputs :
        /\ ~isPlaying
        /\ Becomes(Switched(render(Cur, toggleModulation(Cur, target)), target))

NextModulationTempo ==
    \/ Play
    \/ StartFires
    \/ Tick
    \/ NoteOffFires
    \/ Advance
    \/ SetTempo
    \/ ArmModulation

SpecModulationTempo == Init /\ [][NextModulationTempo]_vars

\* arguments of setOctave during playback
OctaveInputs == {-1, 5000}

ToggleAccent ==
    \E i \in EditSteps :
        /\ i \in StepIndices
        /\ Becomes(Edited(toggleAccent(Cur, i)))

SetOctave ==
    \E i \in EditSteps, octave \in OctaveInputs :
        /\ i \in StepIndices
        /\ Becomes(Edited(setOctave(Cur, i, octave)))

\* The grid during playback: the user starts playback and edits every field
\* of a step at any time; the transport and the tempo are left alone.
NextEdits ==
    \/ Play
    \/ StartFires
    \/ Tick
    \/ NoteOffFires
    \/ Advance
    \/ SetNote
    \/ SetOctave
    \/ ToggleAccent
    \/ ToggleSlide
    \/ ToggleTie
    \/ ToggleActive

SpecEdits == Init /\ [][NextEdits]_vars

\* the waveforms the user selects, and the level the high slider is moved to
ShapeInputs == {<<"oscillator", "saw">>, <<"oscillator", "square">>,
                <<"oscillator", "triangle">>, <<"high", 1>>}

\* The waveforms: the user starts playback, switches one channel on and off
\* and selects its waveform and its high level, before playback or right
\* after a step was evaluated.
ToggleShaped ==
    \E target \in ParamTargets :
        /\ elapsed = 0
        /\ Becomes(Switched(render(Cur, toggleModulation(Cur, target)), target))

SetShape ==
    \E target \in ParamTargets, pv \in ShapeInputs :
        /\ elapsed = 0
        /\ modulations[target].enabled
        /\ Becomes(render(Cur, setModulationParam(Cur, target, pv[1], pv[2])))

NextShapes ==
    \/ Play
    \/ StartFires
    \/ Tick
    \/ NoteOffFires
    \/ Advance
    \/ ToggleShaped
    \/ SetShape

SpecShapes == Init /\ [][NextShapes]_vars

\* The setters of the store alone, called with any argument; each call is
\* logged with its arguments.
Called(s, op, a, b) == [s EXCEPT !.log = <<Ev(op, a, b, 0)>>]

StoreSetTempo ==
    \E t \in StoreInputs :
        Becomes(Called(render(Cur, setTempo(Cur, t)), "setTempo", t, 0))

StoreSetBaseOctave ==
    \E octave \in StoreInputs :
        Becomes(Called(render(Cur, setBaseOctave(Cur, octave)),
                       "setBaseOctave", octave, 0))

StoreSetOctave ==
    \E i \in StepIndices, octave \in StoreInputs :
        Becomes(Called(Edited(setOctave(Cur, i, octave)),
                       "setOctave", i, octave))

NextStore ==
    \/ StoreSetTempo
    \/ StoreSetBaseOctave
    \/ StoreSetOctave

SpecStore == Init /\ [][NextStore]_vars

\* arguments of setModulationParam: levels, and periods in microseconds
\* (0.1 s is 100000, 100 s is 100000000)
LevelInputs == {-1, 0, 64, 127, 200}
SpeedInputs == {0, 100000, 2000000, 100000000, 100000250}

\* The setter of the modulation parameters alone, called with any argument.
StoreSetModulationParam ==
    \E target \in ParamTargets, param \in {"low", "high", "speed"} :
        \E value \in IF param = "speed" THEN SpeedInputs ELSE LevelInputs :
            Becomes(Called(
                Switched(render(Cur, setModulationParam(Cur, target, param, value)),
                         target),
                param, TB03_CCS[target], value))

NextStoreModulation ==
    \/ StoreSetModulationParam

SpecStoreModulation == Init /\ [][NextStoreModulation]_vars

\* arguments of the setters before playback: beyond both ends of every range
WireInputs == {-40, 1, 6, 5000}
WireLevels == {-1, 200}

\* Everything that puts a message on the wire: the user sets the octave of a
\* step, the base octave, the low level of a modulation channel and its
\* switch, then plays and stops.
SetOctaveAt ==
    \E i \in EditSteps, octave \in WireInputs :
        /\ plays = 0
        /\ Becomes(Called(Edited(setOctave(Cur, i, octave)),
                          "setOctave", i, octave))

SetBaseOctaveAt ==
    \E octave \in WireInputs :
        /\ plays = 0
        /\ Becomes(Called(render(Cur, setBaseOctave(Cur, octave)),
                          "setBaseOctave", octave, 0))

SetLevelAt ==
    \E target \in ParamTargets, param \in {"low"} :
        \E value \in WireLevels :
            /\ plays = 0
            /\ Becomes(Called(
                   render(Cur, setModulationParam(Cur, target, param, value)),
                   param, TB03_CCS[target], value))

SetNoteBefore ==
    \E i \in EditSteps, n \in NoteInputs :
        /\ plays = 0
        /\ Becomes(Called(Edited(setNote(Cur, i, n)), "setNote", i, 0))

ArmBefore ==
    \E target \in ParamTargets :
        /\ plays = 0
        /\ Becomes(Switched(render(Cur, toggleModulation(Cur, target)), target))

NextWire ==
    \/ Play
    \/ Stop
    \/ StartFires
    \/ Tick
    \/ NoteOffFires
    \/ Advance
    \/ ArmBefore
    \/ SetNoteBefore
    \/ SetOctaveAt
    \/ SetBaseOctaveAt
    \/ SetLevelAt

SpecWire == Init /\ [][NextWire]_vars

\* The sink alone: a client calls its operations with any argument on any of
\* the sixteen channels; each call is logged before what it sends.
Channels == 1 .. 16
SinkNotes == {60}
SinkValues == {-1, 0, 100, 127, 200}
SinkControllers == {-1, 74, 200}
\* pitch bend arguments num / den: eighths from -3/2 to 3/2, and far outside
BendInputs == {<<n, 8>> : n \in -12 .. 12} \cup {<<-5, 1>>, <<7, 1>>}

Calling(op, a, b, c) == [Cur EXCEPT !.log = <<Ev(op, a, b, c)>>]

SinkNoteOn ==
    \E note \in SinkNotes, velocity \in SinkValues, channel \in Channels :
        Becomes(send(Calling("noteOn", note, velocity, channel),
                     noteOn(note, velocity, channel), isConnected))

SinkNoteOff ==
    \E note \in SinkNotes, channel \in Channels :
        Becomes(send(Calling("noteOff", note, 0, channel),
                     noteOff(note, channel), isConnected))

SinkControlChange ==
    \E cc \in SinkControllers, value \in SinkValues, channel \in Channels :
        Becomes(send(Calling("controlChange", cc, value, channel),
                     controlChange(cc, value, channel), isConnected))

SinkPitchBend ==
    \E v \in BendInputs, channel \in Channels :
        Becomes(send(Calling("pitchBend", v[1], v[2], channel),
                     pitchBend(v[1], v[2], channel), isConnected))

SinkAllNotesOff ==
    \E channel \in Channels :
        LET s1 == send(Calling("allNotesOff", 0, 0, channel),
                       allNotesOff(channel)[1], isConnected)
        IN  Becomes(send(s1, allNotesOff(channel)[2], isConnected))

NextSink ==
    \/ SinkNoteOn
    \/ SinkNoteOff
    \/ SinkControlChange
    \/ SinkPitchBend
    \/ SinkAllNotesOff

SpecSink == Init /\ [][NextSink]_vars

\* useMidi.ts lines 79-89: selectOutput with the id of a listed device
selectOutput(s) == [s EXCEPT !.isConnected = TRUE]

\* No device was found when the page loaded (useState(false), line 28): the
\* user sets the modulation switches and starts playback without a device, and
\* may select one from the list at any time.
InitOffline == Constructed /\ isConnected = FALSE

SelectOutput ==
    /\ ~isConnected
    /\ Becomes(render(Cur, selectOutput(Cur)))

NextOffline ==
    \/ Play
    \/ StartFires
    \/ Tick
    \/ NoteOffFires
    \/ Advance
    \/ ArmModulation
    \/ SelectOutput

SpecOffline == InitOffline /\ [][NextOffline]_vars

----------------------------------------------------------------------------
(* Reading the log of the last handler *)

Msg(e) == <<e.a, e.b, e.c>>
Positions(op) == {i \in 1 .. Len(log) : log[i].op = op}
NoteOnPositions == {i \in Positions("send") : IsNoteOn(Msg(log[i]))}
NoteOffPositions == {i \in Positions("send") : IsNoteOff(Msg(log[i]))}
ControlPositions(cc) == {i \in Positions("send") : IsControl(Msg(log[i]), cc)}
PitchBendPositions == {i \in Positions("send") : IsPitchBend(Msg(log[i]))}
\* setTimeout calls that schedule a deferred note-off
SchedulePositions == {i \in Positions("setTimeout") : log[i].c # Null}
\* the last handler was handleStop
Stopped == Len(log) > 0 /\ log[Len(log)].op = "stop"
\* the last handler evaluated step k
Evaluated(k) == \E i \in Positions("playStep") : log[i].a = k
NoteOffTimers == {t \in timers : t.kind = "noteOff"}

----------------------------------------------------------------------------
(* The claims *)

\* C1: in every reachable state at most one note is sounding at the sink.
C1_Monophony == Cardinality(sounding) <= 1

\* C2: the held note (lastNoteRef) is set if and only if a note is sounding
\* at the sink, and then it is that note.
C2_HeldIffSounding ==
    IF lastNoteRef = Null THEN sounding = {} ELSE sounding = {lastNoteRef}

\* C3: within one step evaluation the pending note-off is cancelled before
\* the note-on is sent and the new note-off is scheduled after it; so no
\* deferred note-off that is still pending was scheduled before the latest
\* note-on.
C3_CancelEvaluateSchedule ==
    /\ \A c \in Positions("clearTimeout"), n \in NoteOnPositions :
          Evaluated(currentStep) => c < n
    /\ \A g \in ControlPositions(SlideCC), n \in NoteOnPositions : g < n
    /\ \A n \in NoteOnPositions, x \in SchedulePositions : n < x
    /\ \A t \in NoteOffTimers : ~t.stale

\* C3 witness: an evaluation that cancelled a pending note-off, sent a
\* note-on and scheduled a new note-off.
C3_Witness ==
    /\ Evaluated(currentStep)
    /\ Positions("clearTimeout") # {}
    /\ NoteOnPositions # {}
    /\ SchedulePositions # {}

\* C4: at most one deferred note-off is pending, it is the one the handle
\* refers to, and the handle is null when none is pending.
C4_OnePendingNoteOff ==
    /\ Cardinality(NoteOffTimers) <= 1
    /\ \A t \in NoteOffTimers : t.id = noteOffTimeoutRef
    /\ NoteOffTimers = {} => noteOffTimeoutRef = Null

\* C4 witness: a deferred note-off has fired and another one is pending
\* after a later evaluation.
C4_Witness ==
    /\ NoteOffTimers # {}
    /\ currentStep > 0
    /\ isPlaying

\* C5: when stop() has returned it has sent exactly one all-notes-off and
\* no timer of the engine is pending.
C5_StopLeavesNothingPending ==
    Stopped =>
        /\ Cardinality(ControlPositions(AllNotesOffCC)) = 1
        /\ timers = {}

ModulationPositions ==
    {i \in Positions("send") :
        \E target \in Targets : IsControl(Msg(log[i]), TB03_CCS[target])}

\* C6: while the transport is not playing no step is evaluated, no note-on,
\* glide controller or modulation controller message is sent and the step
\* index is 0.
C6_IdleWhileStopped ==
    ~isPlaying =>
        /\ Positions("playStep") = {}
        /\ NoteOnPositions = {}
        /\ ControlPositions(SlideCC) = {}
        /\ ModulationPositions = {}
        /\ currentStep = 0

\* the messages the last handler sent, in order
Sent == [i \in 1 .. Cardinality(Positions("send")) |->
    Msg(log[CHOOSE p \in Positions("send") :
          Cardinality({q \in Positions("send") : q <= p}) = i])]

\* C7: stop() cancels the interval and the pending note-off, then sends the
\* note-off of the held note if one is held, the pitch-bend reset and the
\* all-notes-off, then marks not playing and resets the step index; after
\* it no note sounds, no note is held, isPlaying is false and currentStep 0.
C7_StopOrder ==
    [][Stopped' =>
        /\ \A c \in (Positions("clearInterval") \cup Positions("clearTimeout"))',
              x \in Positions("send")' : c < x
        /\ intervalRef # Null => Positions("clearInterval")' # {}
        /\ noteOffTimeoutRef # Null => Positions("clearTimeout")' # {}
        /\ Sent' = (IF lastNoteRef # Null
                    THEN <<noteOff(lastNoteRef, DEFAULT_CHANNEL)>>
                    ELSE <<>>)
                   \o <<pitchBend(0, 1, DEFAULT_CHANNEL),
                        controlChange(AllNotesOffCC, 0, DEFAULT_CHANNEL),
                        pitchBend(0, 1, DEFAULT_CHANNEL)>>
        /\ \A x \in Positions("send")' : x < Len(log')
        /\ sounding' = {}
        /\ lastNoteRef' = Null
        /\ intervalRef' = Null
        /\ noteOffTimeoutRef' = Null
        /\ NoteOffTimers' = {}
        /\ ~isPlaying'
        /\ currentStep' = 0]_vars

\* C7 witness: stop() has returned after it cancelled the interval and a
\* pending note-off and released a held note.
C7_Witness ==
    /\ Stopped
    /\ Positions("clearInterval") # {}
    /\ Positions("clearTimeout") # {}
    /\ NoteOffPositions # {}
    /\ plays > 0

\* C8: after stop() the glide controller 102 is at its neutral value 0.
C8_StopResetsGlide == Stopped => glide = 0

\* C9: the evaluation of a step whose active flag is false sends no note-on
\* and no glide controller message.
C9_RestSendsNothing ==
    \A k \in StepIndices :
        Evaluated(k) /\ ~steps[k].active =>
            NoteOnPositions = {} /\ ControlPositions(SlideCC) = {}

\* C9 witness: an inactive step has been evaluated while a note was held.
C9_Witness ==
    \E k \in StepIndices :
        Evaluated(k) /\ ~steps[k].active /\ lastNoteRef # Null

\* the handler of this step evaluated the step after the current one
EvaluatesNextStep ==
    \E i \in 1 .. Len(log') :
        log'[i].op = "playStep" /\ log'[i].a = (currentStep + 1) % StepCount

Evaluates == Positions("playStep") # {}

\* C11: when a note has been held across a tied step and the next step that
\* is evaluated does not continue the tie (it is not tied, or it is
\* inactive), that evaluation sends the note-off of the held note, before
\* any note-on.
C11_TiedNoteReleased ==
    [][lastEvaluation.kind = "tied" /\ lastNoteRef \in sounding
          /\ Evaluates' /\ lastEvaluation'.kind # "tied" =>
        \E x \in NoteOffPositions' :
            /\ log'[x].b = lastNoteRef
            /\ \A n \in NoteOnPositions' : x < n]_vars

\* C12: the evaluation of an inactive step that is not tied, while a note is
\* held and sounding, sends the note-off of that note and clears the held
\* note; the evaluation of an inactive step that is tied sends nothing and
\* leaves the held note as it is.
C12_RestReleases ==
    [][Evaluates' /\ lastEvaluation'.kind = "rest" =>
        IF steps[lastEvaluation'.step].tie
        THEN Positions("send")' = {} /\ lastNoteRef' = lastNoteRef
        ELSE lastNoteRef \in sounding =>
                /\ \E x \in NoteOffPositions' : log'[x].b = lastNoteRef
                /\ lastNoteRef' = Null]_vars

\* timers whose callback evaluates a step
StepTimers == {t \in timers : t.kind \in {"interval", "start"}}

\* C13: after an evaluation that triggered a note at step i, a deferred
\* note-off of that note is pending, due in 0.85 times the step duration of
\* the tempo, if and only if step (i + 1) mod length is not tied; and it is
\* due strictly before the next evaluation of a step.
C13_DeferredRelease ==
    \A n \in NoteOnPositions :
        LET i == lastEvaluation.step
            next == steps[(i + 1) % StepCount]
            due == {t \in NoteOffTimers :
                       /\ t.id = noteOffTimeoutRef
                       /\ t.note = log[n].b
                       /\ 100 * t.rem <= 85 * (15000000 \div tempo)
                       /\ 100 * (t.rem + 1) > 85 * (15000000 \div tempo)}
        IN  /\ SchedulePositions # {} <=> ~next.tie
            /\ ~next.tie => Cardinality(due) = 1
            /\ next.tie => NoteOffTimers = {}
            /\ \A t \in due, i2 \in StepTimers : t.rem < i2.rem

\* play() was called while stopped and no step was evaluated since
AwaitingFirstStep == plays > 0 /\ lastEvaluation = NoEvaluation

C15_StepsInOrder ==
    [][/\ currentStep \in StepIndices
       /\ isPlaying /\ isPlaying' /\ Evaluates' =>
             lastEvaluation'.step =
                 IF lastEvaluation = NoEvaluation THEN 0
                 ELSE (lastEvaluation.step + 1) % StepCount]_vars

\* the last handler was a callback of the step interval
Ticked == Evaluates /\ Positions("setInterval") = {}

\* C16: the step duration is 15000 / tempo milliseconds for every tempo in
\* 30 .. 300 (125 ms at tempo 120), and during playback a tick of the
\* interval that reads the tempo the evaluation before it read comes exactly
\* one step duration after that evaluation.
C16_TickSpacing ==
    [][/\ \A t \in 30 .. 300 :
             /\ t * getStepDuration(t) <= 15000000
             /\ t * (getStepDuration(t) + 1) > 15000000
       /\ getStepDuration(120) = 125000
       /\ isPlaying /\ isPlaying' /\ Ticked' /\ lastEvaluation.tempo = tempo' =>
             elapsed = getStepDuration(tempo')]_vars

\* C17: the step evaluated first after a change of the tempo comes at least
\* one step duration of the old tempo after the evaluation before the
\* change.
C17_NoEarlyTick ==
    [][isPlaying /\ Evaluates' /\ lastEvaluation # NoEvaluation
          /\ lastEvaluation.tempo # tempo' =>
        elapsed >= getStepDuration(lastEvaluation.tempo)]_vars

\* the positions in the log of the controller messages of a channel
ChannelPositions(target) == ControlPositions(TB03_CCS[target])

\* C18: a modulation channel whose enabled flag is false sends no
\* controller message and keeps its phase, in every step: a tick, a toggle
\* or a change of a parameter.
C18_DisabledChannelSilent ==
    [][\A target \in Targets :
          ~modulations[target].enabled =>
              /\ ChannelPositions(target)' = {}
              /\ modulationPhaseRef'[target] = modulationPhaseRef[target]]_vars

\* C18 witness: a channel that has run and was switched off kept its phase
\* and sent nothing at a tick at which another channel sent its value.
C18_Witness ==
    /\ Ticked
    /\ \E target \in Targets :
          /\ ~modulations[target].enabled
          /\ modulationPhaseRef[target] # 0
          /\ ChannelPositions(target) = {}
    /\ ModulationPositions # {}

\* the value lies between a and b, whichever is the smaller
Between(a, b, v) == Min(a, b) <= v /\ v <= Max(a, b)

\* C19: every controller message of the modulation engine goes to the fixed
\* controller number of its channel (12, 16, 71, 74, 75) and carries the
\* value of the oscillator at the channel's phase, which lies between low
\* and high, in whichever order they are, and so in 0 .. 127; the same bounds
\* hold for every waveform at that phase.
C19_ModulationValue ==
    /\ TB03_CCS = [envMod |-> 12, accentLevel |-> 16, resonance |-> 71,
                   cutoff |-> 74, decay |-> 75]
    /\ \A i \in Positions("send") :
          \/ IsNoteOn(Msg(log[i])) \/ IsNoteOff(Msg(log[i]))
          \/ IsPitchBend(Msg(log[i]))
          \/ IsControl(Msg(log[i]), SlideCC)
          \/ IsControl(Msg(log[i]), AllNotesOffCC)
          \/ \E target \in Targets :
                /\ modulations[target].enabled
                /\ ChannelPositions(target) = {i}
    /\ \A target \in Targets :
          LET mod == modulations[target]
          IN  /\ \A i \in ChannelPositions(target) :
                    /\ log[i].c = getOscillatorValue(modulationPhaseRef[target],
                                     mod.low, mod.high, mod.oscillator)
                    /\ Between(mod.low, mod.high, log[i].c)
                    /\ log[i].c \in 0 .. 127
              /\ \A oscillator \in OscillatorTypes :
                    Between(mod.low, mod.high,
                            getOscillatorValue(modulationPhaseRef[target],
                                               mod.low, mod.high, oscillator))

\* C19 witness: at one tick two channels have sent their values, one of
\* them with low above high and a triangle wave away from its extremes.
C19_Witness ==
    /\ Ticked
    /\ ChannelPositions("envMod") # {}
    /\ \E i \in ChannelPositions("cutoff") :
          /\ modulations["cutoff"].high < modulations["cutoff"].low
          /\ modulations["cutoff"].oscillator = "triangle"
          /\ log[i].c > modulations["cutoff"].high
          /\ log[i].c < modulations["cutoff"].low

\* C20: after a tick the currentValue of every enabled channel in the store
\* is the value the tick has sent for it.
C20_CurrentValueIsLastSent ==
    \A target \in Targets :
        \A i \in ChannelPositions(target) :
            modulations[target].enabled =>
                modulations[target].currentValue = log[i].c

\* the time until sendModulations is called next, or Null when no timer
\* that calls it is pending
NextModulationDue ==
    IF StepTimers = {} THEN Null
    ELSE CHOOSE d \in {t.rem : t \in StepTimers} :
             \A t \in StepTimers : d <= t.rem

\* C21: the modulation tick does not depend on the step clock: a change of
\* the tempo while a channel is enabled leaves the time of the next
\* modulation tick as it was.
C21_ModulationIndependentOfTempo ==
    [][tempo' # tempo /\ (\E target \in Targets : modulations[target].enabled) =>
        NextModulationDue' = NextModulationDue]_vars

\* C22: phase accumulation is free of drift: after a modulation tick the
\* phase of a channel that has been enabled with the same period since
\* play() is its phase at play() plus the time since play() over the period,
\* however many ticks there were and however they were spaced.
C22_DriftFree ==
    Evaluates =>
        \A target \in Targets :
            wallPhase[target] # Null =>
                modulationPhaseRef[target] = wallPhase[target]

\* C22 witness: a channel has run since play() through ticks 125 ms apart
\* and then, after a change of the tempo, 50 ms apart.
C22_Witness ==
    /\ Ticked
    /\ tempo # InitialTempo
    /\ lastEvaluation.step = 2
    /\ \E target \in Targets :
          /\ wallPhase[target] # Null
          /\ ChannelPositions(target) # {}
          /\ modulationPhaseRef[target] % 100 # 8
\* C23: a sine channel sends high at a quarter of its cycle, low at three
\* quarters and Math.round((low + high) / 2) at the whole and the half cycle;
\* with low 40 and high 120 the value at a quarter cycle is 120.
C23_SinePoints ==
    \A target \in Targets :
        LET mod == modulations[target]
            frac == modulationPhaseRef[target] % Cycle
        IN  mod.oscillator = "sine" =>
                \A i \in ChannelPositions(target) :
                    /\ frac = 400 => log[i].c = mod.high
                    /\ frac = 1200 => log[i].c = mod.low
                    /\ frac \in {0, 800} =>
                           log[i].c = Round(mod.low + mod.high, 2)
                    /\ (mod.low = 40 /\ mod.high = 120 /\ frac = 400) =>
                           log[i].c = 120

\* the cutoff channel, a sine from 40 to 120, has sent 120 at a quarter cycle
C23_QuarterReached ==
    /\ modulations["cutoff"].oscillator = "sine"
    /\ modulations["cutoff"].low = 40 /\ modulations["cutoff"].high = 120
    /\ modulationPhaseRef["cutoff"] = 400
    /\ \E i \in ChannelPositions("cutoff") : log[i].c = 120

\* what the engine and the browser hold after a handler, leaving out what
\* the device has received, the modulation engine and the connection that
\* the closures of the timers have captured
GateState(s) ==
    [currentStep |-> s.currentStep, isPlaying |-> s.isPlaying,
     lastNoteRef |-> s.lastNoteRef, noteOffTimeoutRef |-> s.noteOffTimeoutRef,
     intervalRef |-> s.intervalRef,
     timers |-> {[id |-> t.id, kind |-> t.kind, rem |-> t.rem,
                  period |-> t.period, note |-> t.note] : t \in s.timers}]

IsModulationEntry(e) ==
    /\ e.op = "send"
    /\ \E target \in Targets : IsControl(Msg(e), TB03_CCS[target])

\* what a handler has done, in order, apart from the modulation messages
GateTraffic(s) == SelectSeq(s.log, LAMBDA e : ~IsModulationEntry(e))

\* the note-on messages a handler has attempted
NoteOnAttempts(s) ==
    {i \in 1 .. Len(s.log) :
        s.log[i].op = "send" /\ IsNoteOn(Msg(s.log[i]))}

\* a handler does the same to the gate with a sink that drops every message
\* as with one that delivers them, and attempts a note-on at most once
SameGate(failed, delivered) ==
    /\ GateState(failed) = GateState(delivered)
    /\ GateTraffic(failed) = GateTraffic(delivered)
    /\ Cardinality(NoteOnAttempts(failed)) <= 1

\* C24: in every state, also one reached with no device selected, every
\* handler that can run next leaves the timers, the step index, the held note
\* and the pending note-off the same whether its messages are delivered or
\* dropped, and attempts the same messages once; a tick with a dropped
\* message still advances the step index and keeps the interval running.
C24_SinkFailuresHarmless ==
    /\ SameGate(handlePlay(Cur, FALSE), handlePlay(Cur, TRUE))
    /\ SameGate(handleStop(Cur, FALSE), handleStop(Cur, TRUE))
    /\ \A t \in timers, r \in RandomDraws :
          LET fired == [Cur EXCEPT !.timers = @ \ {t}]
              again == [Cur EXCEPT !.timers =
                           (@ \ {t}) \cup {[t EXCEPT !.rem = t.period]}]
          IN  /\ t.kind = "start" =>
                    SameGate(startCallback(fired, FALSE, r),
                             startCallback(fired, TRUE, r))
              /\ t.kind = "noteOff" =>
                    SameGate(noteOffCallback(fired, t.note, FALSE),
                             noteOffCallback(fired, t.note, TRUE))
              /\ t.kind = "interval" =>
                    LET failed == intervalCallback(again, FALSE, r)
                    IN  /\ SameGate(failed, intervalCallback(again, TRUE, r))
                        /\ failed.currentStep = (currentStep + 1) % StepCount
                        /\ \E i \in 1 .. Len(failed.log) :
                              /\ failed.log[i].op = "playStep"
                              /\ failed.log[i].a = failed.currentStep
                        /\ \E t2 \in failed.timers :
                              t2.id = t.id /\ t2.rem = t.period

\* C24 witness: with no device selected the interval has ticked through the
\* pattern to its last step, a note is held and its note-off is pending,
\* and nothing has reached a device.
C24_Witness ==
    /\ ~isConnected
    /\ Ticked
    /\ currentStep = StepCount - 1
    /\ NoteOnPositions # {}
    /\ lastNoteRef # Null
    /\ noteOffTimeoutRef # Null
    /\ sounding = {}

\* C25: every evaluation of a step with an enabled channel, whether the
\* sink is connected or not, restarts the time since the last modulation
\* tick and advances the phase of every enabled channel by the time that has
\* passed over the channel's period.
C25_ModulationProceedsOffline ==
    [][Evaluates' /\ (\E target \in Targets : modulations[target].enabled) =>
          /\ sinceModulation' = 0
          /\ \A target \in Targets :
                modulations[target].enabled =>
                    modulationPhaseRef'[target] =
                        (modulationPhaseRef[target]
                           + PhaseAdvance(sinceModulation,
                                          modulations[target].speed)) % Cycle]_vars

\* the value of lo .. hi nearest to x
Nearest(lo, hi, x) == IF x < lo THEN lo ELSE IF x > hi THEN hi ELSE x

\* C26: the tempo is in 30 .. 300, the base octave in 1 .. 6 and the octave
\* of every step in -1 .. 1 after any sequence of calls of the setters, and
\* the value stored by a call is its argument when that is in range and the
\* nearest bound of the range when it is not.
C26_ClampedNotRejected ==
    /\ tempo \in 30 .. 300
    /\ baseOctave \in 1 .. 6
    /\ \A i \in StepIndices : steps[i].octave \in {-1, 0, 1}
    /\ \A i \in Positions("setTempo") : tempo = Nearest(30, 300, log[i].a)
    /\ \A i \in Positions("setBaseOctave") :
          baseOctave = Nearest(1, 6, log[i].a)
    /\ \A i \in Positions("setOctave") :
          steps[log[i].a].octave = Nearest(-1, 1, log[i].b)

\* C26 witness: a tempo above the range was just stored as 300, after a base
\* octave and the octaves of two steps had been brought to their bounds.
C26_Witness ==
    /\ \E i \in Positions("setTempo") : log[i].a > 300
    /\ tempo = 300
    /\ baseOctave = 1
    /\ steps[0].octave = -1
    /\ steps[1].octave = 1

\* C27: every channel has low and high in 0 .. 127 and a period between 0.1
\* and 100 seconds after any sequence of changes of its parameters, so the
\* value of every waveform at every quarter of the cycle is in 0 .. 127.
C27_ModulationParamsInRange ==
    \A target \in Targets :
        LET mod == modulations[target]
        IN  /\ mod.low \in 0 .. 127
            /\ mod.high \in 0 .. 127
            /\ mod.speed >= 100000
            /\ mod.speed <= 100000000
            /\ \A oscillator \in OscillatorTypes, phase \in {0, 400, 800, 1200} :
                  getOscillatorValue(phase, mod.low, mod.high, oscillator)
                      \in 0 .. 127

\* C28: the two data bytes of every message sent are in 0 .. 127:
\* controlChange sends the controller number and the value brought into
\* 0 .. 127, noteOn the velocity brought into 0 .. 127, and the note number
\* of every step is in 0 .. 127 whatever its note name, for the octaves and
\* the base octave the setters have stored.
C28_DataBytes ==
    /\ \A i \in Positions("send") :
          /\ log[i].a \in 128 .. 255
          /\ log[i].b \in 0 .. 127
          /\ log[i].c \in 0 .. 127
    /\ \A value \in StoreInputs :
          /\ controlChange(value, 301 - value, DEFAULT_CHANNEL)
                = <<176, Nearest(0, 127, value), Nearest(0, 127, 301 - value)>>
          /\ noteOn(60, value, DEFAULT_CHANNEL)
                = <<144, 60, Nearest(0, 127, value)>>
    /\ \A i \in StepIndices, k \in 1 .. Len(NOTE_NAMES) :
          stepToMidiNote([steps[i] EXCEPT !.note = NOTE_NAMES[k]], baseOctave)
              \in 0 .. 127

\* C28 witness: one tick has sent the note of the highest octave and a
\* modulation value that the oscillator had computed above 127.
C28_Witness ==
    /\ Ticked
    /\ \E i \in NoteOnPositions : log[i].b >= 96
    /\ \E i \in ChannelPositions("cutoff") :
          /\ log[i].c = 127
          /\ getOscillatorValue(modulationPhaseRef["cutoff"],
                                modulations["cutoff"].low,
                                modulations["cutoff"].high,
                                modulations["cutoff"].oscillator) > 127

\* the last handler was a call of this operation of the sink
SinkCall(op) == Len(log) > 1 /\ log[1].op = op

\* C29: pitchBend(v) sends b = round((v + 1) * 8191.5) brought into
\* 0 .. 16383 as lsb = b mod 128 and msb = b div 128, both in 0 .. 127 and
\* with lsb + 128 msb = b; v = 0 gives 8192, v = -1 gives 0, v = 1 gives
\* 16383, and a v outside -1 .. 1 gives what the nearer end gives.
C29_PitchBendEncoding ==
    SinkCall("pitchBend") =>
        LET num == log[1].a
            den == log[1].b
            b == Nearest(0, 16383, Round((num + den) * 16383, 2 * den))
            lsb == log[2].b
            msb == log[2].c
        IN  /\ Len(log) = 2 /\ log[2].op = "send"
            /\ lsb = b % 128 /\ msb = b \div 128
            /\ lsb + 128 * msb = b
            /\ lsb \in 0 .. 127 /\ msb \in 0 .. 127
            /\ num = 0 => b = 8192 /\ lsb = 0 /\ msb = 64
            /\ num <= -den => b = 0
            /\ num >= den => b = 16383 /\ lsb = 127 /\ msb = 127
            /\ (-den < num /\ num < 0) => (0 < b /\ b < 8192)
            /\ (0 < num /\ num < den) => (8192 < b /\ b < 16383)

\* C29 witness: a pitch bend of -1/8 was sent as 7168 = 0 + 128 * 56.
C29_Witness ==
    /\ SinkCall("pitchBend")
    /\ log[1].a = -1 /\ log[1].b = 8
    /\ log[2].b = 0 /\ log[2].c = 56

\* C30: allNotesOff sends two messages, controller 123 with value 0 and then
\* a pitch bend at the centre, on its channel; the status byte of every
\* message on channel c of 1 .. 16 is 0x90, 0x80, 0xB0 or 0xE0 plus c - 1, so
\* 0x90, 0x80, 0xB0 and 0xE0 on the default channel 1; a note-off carries
\* velocity 0.
C30_Framing ==
    /\ DEFAULT_CHANNEL = 1
    /\ noteOn(60, 100, DEFAULT_CHANNEL)[1] = 144
    /\ noteOff(60, DEFAULT_CHANNEL) = <<128, 60, 0>>
    /\ controlChange(74, 100, DEFAULT_CHANNEL)[1] = 176
    /\ pitchBend(0, 1, DEFAULT_CHANNEL)[1] = 224
    /\ SinkCall("allNotesOff") =>
          /\ Len(log) = 3
          /\ Msg(log[2]) = <<176 + log[1].c - 1, 123, 0>>
          /\ Msg(log[3]) = <<224 + log[1].c - 1, 0, 64>>
    /\ SinkCall("noteOn") => log[2].a = 144 + log[1].c - 1
    /\ SinkCall("noteOff") => log[2].a = 128 + log[1].c - 1 /\ log[2].c = 0
    /\ SinkCall("controlChange") => log[2].a = 176 + log[1].c - 1
    /\ SinkCall("pitchBend") => log[2].a = 224 + log[1].c - 1
    /\ \A i \in NoteOffPositions : log[i].c = 0

\* C30 witness: allNotesOff on channel 16 has sent its two messages with
\* the status bytes 0xBF and 0xEF.
C30_Witness ==
    /\ SinkCall("allNotesOff")
    /\ log[1].c = 16
    /\ log[2].a = 191 /\ log[3].a = 239

\* the pitch class index of a note name, counted from C = 0
PitchClass(name) ==
    CASE name = "C" -> 0 [] name = "C#" -> 1 [] name = "D" -> 2
      [] name = "D#" -> 3 [] name = "E" -> 4 [] name = "F" -> 5
      [] name = "F#" -> 6 [] name = "G" -> 7 [] name = "G#" -> 8
      [] name = "A" -> 9 [] name = "A#" -> 10 [] name = "B" -> 11

\* C31: the note number of every note-on is (baseOctave + octave + 1) * 12
\* plus the pitch class index of the step that the handler evaluated, 48 for
\* C with octave 0 and base octave 3, and it lies in 12 .. 107 for every
\* note name with the octaves and the base octave that are stored.
C31_NoteNumber ==
    /\ \A n \in NoteOnPositions :
          \E p \in Positions("playStep") :
              LET step == steps[log[p].a]
              IN  /\ p < n
                  /\ log[n].b = (baseOctave + step.octave + 1) * 12
                                   + PitchClass(step.note)
                  /\ (step.note = "C" /\ step.octave = 0 /\ baseOctave = 3)
                        => log[n].b = 48
                  /\ log[n].b \in 12 .. 107
    /\ \A i \in StepIndices, k \in 1 .. Len(NOTE_NAMES) :
          stepToMidiNote([steps[i] EXCEPT !.note = NOTE_NAMES[k]], baseOctave)
              \in 12 .. 107

\* C31 witness: a tick has sent the note-on of D in the highest octave, 98.
C31_Witness ==
    /\ Ticked
    /\ baseOctave = 6
    /\ \E n \in NoteOnPositions, p \in Positions("playStep") :
          /\ steps[log[p].a].note = "D"
          /\ steps[log[p].a].octave = 1
          /\ log[n].b = 98

\* outcomes of Math.random() in thousandths, spread over [0, 1)
DrawSamples == {(k * 37) % 1000 : k \in 0 .. 40} \cup {999}

\* C32: the velocity of every note-on is in 100 .. 127 when the step that
\* triggered it is accented and in 1 .. 98 when it is not, whatever
\* Math.random() returns; it is never 0 and never 99.
C32_VelocityRanges ==
    /\ \A n \in NoteOnPositions :
          \E p \in Positions("playStep") :
              /\ p < n
              /\ steps[log[p].a].accent => log[n].c \in 100 .. 127
              /\ ~steps[log[p].a].accent => log[n].c \in 1 .. 98
    /\ \A r \in DrawSamples :
          /\ getVelocity(TRUE, r) \in 100 .. 127
          /\ getVelocity(FALSE, r) \in 1 .. 98
    /\ (100 .. 127) \cap (1 .. 98) = {}

\* C32 witness: a tick has triggered an accented step with the highest
\* velocity.
C32_Witness ==
    /\ Ticked
    /\ \E n \in NoteOnPositions, p \in Positions("playStep") :
          /\ steps[log[p].a].accent
          /\ log[n].c = 127

\* C33: the entry of the log just before every note-on is a message on
\* controller 102, of the same evaluation, with value 127 when the step that
\* is evaluated has slide and 0 when it has not; it is the only message on
\* controller 102 of that evaluation, and a message on controller 102 is
\* sent nowhere but just before a note-on.
C33_GlideBeforeNoteOn ==
    /\ \A n \in NoteOnPositions :
          \E p \in Positions("playStep") :
              /\ p < n
              /\ \A q \in Positions("playStep") : q <= p \/ q > n
              /\ n - 1 \in ControlPositions(SlideCC)
              /\ log[n - 1].c = IF steps[log[p].a].slide THEN 127 ELSE 0
              /\ \A i \in ControlPositions(SlideCC) :
                    (p < i /\ i < n) => i = n - 1
    /\ \A i \in ControlPositions(SlideCC) : i + 1 \in NoteOnPositions

\* C33 witness: a tick has triggered a step with slide: controller 102 with
\* value 127 and then the note-on.
C33_Witness ==
    /\ Ticked
    /\ \E n \in NoteOnPositions :
          /\ log[n - 1].b = SlideCC /\ log[n - 1].c = 127
          /\ glide = 127

\* what the evaluation of step j must do, given the pattern and the held
\* note it finds: nothing for a rest or a tied hold; otherwise the glide
\* controller and one note-on with the note, the slide and the accent of the
\* step, and a deferred note-off exactly when the step after it is not tied
EvaluatesPattern(j) ==
    LET step == steps[j]
    IN  IF ~step.active \/ (step.tie /\ lastNoteRef # Null)
        THEN /\ Positions("send")' = {}
             /\ SchedulePositions' = {}
             /\ lastNoteRef' = lastNoteRef
        ELSE /\ Cardinality(NoteOnPositions') = 1
             /\ Cardinality(Positions("send")') = 2
             /\ \A n \in NoteOnPositions' :
                   /\ log'[n].b = (baseOctave + step.octave + 1) * 12
                                    + PitchClass(step.note)
                   /\ log'[n].c >= 100 <=> step.accent
                   /\ log'[n - 1].b = SlideCC
                   /\ log'[n - 1].c = 127 <=> step.slide
                   /\ lastNoteRef' = log'[n].b
                   /\ \A i \in SchedulePositions' : log'[i].c = log'[n].b
             /\ SchedulePositions' # {} <=> ~steps[(j + 1) % StepCount].tie

\* C34: an edit of a step sends nothing and leaves the held note, the
\* pending note-off and every timer as they are; the evaluation of a step
\* does what the pattern of that moment asks for; and the note-off that a
\* timer sends carries the note number the timer was created with, that of
\* the note-on that scheduled it.
C34_EditsAtTickBoundaries ==
    [][/\ steps' # steps =>
             /\ Positions("send")' = {}
             /\ lastNoteRef' = lastNoteRef
             /\ noteOffTimeoutRef' = noteOffTimeoutRef
             /\ intervalRef' = intervalRef
             /\ timers' = timers
             /\ sounding' = sounding
             /\ currentStep' = currentStep
       /\ \A p \in Positions("playStep")' : EvaluatesPattern(log'[p].a)
       /\ \A i \in NoteOffPositions' :
             \E t \in NoteOffTimers :
                 /\ t.rem = 0
                 /\ t \notin timers'
                 /\ log'[i].b = t.note]_vars

\* C34 witness: the note of a step was edited while its note was sounding
\* with the note-off pending, and the note-off that was then sent carried
\* the number of the note that sounded.
C34_Witness ==
    /\ NoteOffPositions # {}
    /\ lastEvaluation.step = 1
    /\ \A i \in NoteOffPositions :
          log[i].b # stepToMidiNote(steps[1], baseOctave)
    /\ sounding = {}

\* C35: the evaluation of an active step with tie sends nothing and keeps
\* the held note when a note is sounding, and triggers a note when none is.
C35_TiedHoldOnlyWhileSounding ==
    [][\A p \in Positions("playStep")' :
          LET step == steps[log'[p].a]
          IN  step.active /\ step.tie =>
                  IF sounding # {}
                  THEN /\ Positions("send")' = {}
                       /\ lastNoteRef' = lastNoteRef
                  ELSE NoteOnPositions' # {}]_vars

\* the value v is the integer nearest to num / den, the half going upward
NearestTo(v, num, den) == 2 * v * den <= 2 * num + den /\ 2 * num + den < 2 * (v + 1) * den

\* the value the channel's oscillator returns at the phase frac, with the
\* channel's levels
ValueAt(target, frac) ==
    getOscillatorValue(frac, modulations[target].low, modulations[target].high,
                       modulations[target].oscillator)

\* C36: a value sent by a channel with the square wave is high in the first
\* half of the cycle and low in the second; with the saw it is the integer
\* nearest to low + frac * (high - low), which is low at the start of the
\* cycle, high at its end and moves from low toward high in between; with the
\* triangle it is the value at the mirrored phase 1 - frac, high at the start
\* of the cycle and low at its middle.
C36_Waveforms ==
    \A target \in Targets :
        \A i \in ChannelPositions(target) :
            LET mod == modulations[target]
                frac == modulationPhaseRef[target]
                v == log[i].c
            IN  /\ frac \in 0 .. Cycle - 1
                /\ mod.oscillator = "square" =>
                       v = (IF 2 * frac < Cycle THEN mod.high ELSE mod.low)
                /\ mod.oscillator = "saw" =>
                       /\ NearestTo(v, mod.low * Cycle + frac * (mod.high - mod.low),
                                    Cycle)
                       /\ ValueAt(target, 0) = mod.low
                       /\ ValueAt(target, Cycle - 1) = mod.high
                       /\ \A later \in frac .. Cycle - 1 :
                              Between(v, mod.high, ValueAt(target, later))
                /\ mod.oscillator = "triangle" =>
                       /\ v = ValueAt(target, Cycle - frac)
                       /\ v = ValueAt(target, frac + Cycle)
                       /\ ValueAt(target, 0) = mod.high
                       /\ ValueAt(target, 800) = mod.low
                       /\ frac <= 800 =>
                              \A later \in frac .. 800 :
                                  Between(mod.low, v, ValueAt(target, later))

\* C36 witness: a tick has sent the value of a triangle wave on its way down,
\* strictly between the two levels, in the first half of the cycle.
C36_Witness ==
    /\ Ticked
    /\ \E target \in Targets :
          /\ modulations[target].oscillator = "triangle"
          /\ modulationPhaseRef[target] \in 1 .. 799
          /\ \E i \in ChannelPositions(target) :
                /\ log[i].c < modulations[target].high
                /\ log[i].c > modulations[target].low

\* the step intervals that are running
LiveIntervals == {t \in timers : t.kind = "interval"}

\* C37: at most one step interval is running, and it is the one whose handle
\* is in intervalRef, so that handleStop and the effect can cancel it.
C37_OneCancellableInterval ==
    /\ Cardinality(LiveIntervals) <= 1
    /\ \A t \in LiveIntervals : t.id = intervalRef

\* when the running step intervals tick next, and with what period
StepSchedule == {<<t.rem, t.period>> : t \in LiveIntervals}

\* C38: during playback a change of a modulation channel, of a step or of
\* the connection of the sink, with the tempo as it was, leaves the step
\* interval ticking when it would have.
C38_OnlyTempoRestarts ==
    [][/\ isPlaying /\ isPlaying'
       /\ tempo' = tempo
       /\ \/ modulations' # modulations
          \/ steps' # steps
          \/ isConnected' # isConnected
       => StepSchedule' = StepSchedule]_vars

\* C39: while playing, a step is evaluated no later than the longer of the
\* step duration of the tempo at the previous evaluation and the step
\* duration of the present tempo after that evaluation, whenever the tempo
\* was changed in between.
C39_TempoChangeCannotDelay ==
    [][/\ isPlaying /\ lastEvaluation # NoEvaluation
       /\ Ticked'
       => elapsed <= Max(getStepDuration(lastEvaluation.tempo),
                         getStepDuration(tempo))]_vars

====
